---- MODULE Spec2Model ----
(***************************************************************************)
(* Model of the MoEngage dashboard (src/app.py): the cached campaign       *)
(* fetch, the normalisation of the provider's payload, the flattening of   *)
(* the stats and the derivation of the percentage metrics.                 *)
(*                                                                         *)
(* Python values are modelled as follows.                                  *)
(*   dict   a function whose domain is the set of its keys; an ordered     *)
(*          mapping that the code iterates (data['data'], 'platforms') is  *)
(*          a sequence of [key, value] records in provider order           *)
(*   list   a sequence                                                     *)
(*   float  a record [k, n, d]: k is "num" (the rational n/d in lowest     *)
(*          terms, d > 0), "nan", "inf" or "ninf"                          *)
(*   DataFrame  [cols |-> set of column names, rows |-> sequence of        *)
(*          functions from cols to cells]                                  *)
(***************************************************************************)
EXTENDS Integers, Sequences, FiniteSets, TLC

VARIABLES
    (* one script run in campaign mode, lines 132-141 *)
    phase,      \* "start", "fetched", "derived"
    outcome,    \* what requests.post meets on this run
    fetched,    \* what fetch_campaign_data did: [status, value, errors]
    derived,    \* what lines 137-141 did: [status, key, ret, arg]
    (* calculate_metrics called on its own *)
    calcPhase,  \* "input", "called"
    calcDf,     \* the caller's DataFrame object (as it is now)
    calcMode,   \* 'campaign' or 'flow'
    calcIn,     \* the DataFrame as it was passed in
    calcOut,    \* what the call did: [status, key, ret, arg]
    (* the st.cache_data wrapper and the sessions calling through it *)
    now,        \* the cache timer
    cache,      \* value key -> [live, value, errors, expires]: the stored entry
    lock,       \* value key -> holder of the compute lock, or "free"
    pc,         \* session -> "idle", "waiting", "inflight", "returned", "raised"
    ckey,       \* session -> the date range of its call
    cwin,       \* session -> the call was made in its range's first window
    cret,       \* session -> what the call returned
    chit,       \* session -> the call was served from the cache
    cfail,      \* session -> a failed fetch's entry was live when the call was made
    cerrs,      \* session -> st.error elements shown by the call
    ncalls,     \* calls made so far, by all sessions
    first,      \* date range -> timer value at its first call, or NoCall
    winPosts,   \* date range -> POSTs by calls made in the first call's window
    winRets,    \* date range -> values returned by calls made in that window
    writes      \* date range -> values stored by calls with that range

runVars == <<phase, outcome, fetched, derived>>
calcVars == <<calcPhase, calcDf, calcMode, calcIn, calcOut>>
cacheVars == <<now, cache, lock, pc, ckey, cwin, cret, chit, cfail, cerrs,
               ncalls, first, winPosts, winRets, writes>>
vars == <<runVars, calcVars, cacheVars>>

(***************************************************************************)
(* Bounds of the model.                                                    *)
(***************************************************************************)
MaxBatch == 2       \* campaign entries in one payload
MaxRows == 2        \* rows of a DataFrame handed to calculate_metrics
MaxCount == 1       \* the counts 0..MaxCount fill the generated rows
MaxTime == 2        \* the cache timer runs over 0..MaxTime*ClockStep
MaxCalls == 3       \* calls the sessions make between them

(***************************************************************************)
(* Program constants.                                                      *)
(***************************************************************************)
TTL == 600          \* @st.cache_data(ttl=600)
ClockStep == TTL \div 2

EmptyDict == << >>

Get(d, k, default) == IF k \in DOMAIN d THEN d[k] ELSE default

Min(a, b) == IF a <= b THEN a ELSE b

(***************************************************************************)
(* The provider's payloads (spec section 3, RawCampaignPayload; read by    *)
(* lines 60-67).                                                           *)
(***************************************************************************)
Path == <<"locales", "all_locales", "variations", "all_variations",
          "performance_stats">>

\* The nested mapping under one platform with the first `depth` segments of
\* Path present; with all five, performance_stats is `stats`.
RECURSIVE NestFrom(_, _, _)
NestFrom(i, depth, stats) ==
    IF i > depth THEN IF depth = Len(Path) THEN stats ELSE EmptyDict
    ELSE (Path[i] :> NestFrom(i + 1, depth, stats))

Nest(depth, stats) == NestFrom(1, depth, stats)

StatsExample == [sent |-> 100, delivered |-> 80, impression |-> 40,
                 click |-> 10, conversion |-> 2]
StatsZeroSent == [sent |-> 0, delivered |-> 80, impression |-> 40,
                  click |-> 10, conversion |-> 2]
StatsPartial == [sent |-> 100, click |-> 10]
StatsOther == [sent |-> 7, delivered |-> 7, impression |-> 7, click |-> 7,
               conversion |-> 7, failed |-> 7]
StatsDicts == {StatsExample, StatsZeroSent, StatsPartial, StatsOther, EmptyDict}

Platform(name, body) == [key |-> name, value |-> body]
OnePlatform(body) == << [platforms |-> << Platform("email", body) >>] >>

\* The values a campaign id can map to.
EmptyList == << >>
NoPlatforms == << EmptyDict >>
EmptyPlatforms == << [platforms |-> << >>] >>
TwoPlatforms(b1, b2) ==
    << [platforms |-> << Platform("email", b1), Platform("push", b2) >>] >>

EntryShapes ==
    {EmptyList, NoPlatforms, EmptyPlatforms}
    \cup {OnePlatform(Nest(Len(Path), s)) : s \in StatsDicts \ {StatsOther}}
    \cup {OnePlatform(Nest(d, EmptyDict)) : d \in 0..(Len(Path) - 1)}
    \cup {TwoPlatforms(Nest(Len(Path), StatsExample), Nest(Len(Path), StatsOther)),
          TwoPlatforms(Nest(2, EmptyDict), Nest(Len(Path), StatsOther))}

CampaignIds == <<"C1", "C2", "C3", "C4", "C5", "C6">>

\* data['data']: campaign ids to entry values, in provider order.
Batches ==
    UNION {{[i \in 1..n |-> [key |-> CampaignIds[i], value |-> f[i]]] :
              f \in [1..n -> EntryShapes]} :
           n \in 0..Min(MaxBatch, Len(CampaignIds))}

Payloads == {EmptyDict} \cup {[data |-> b] : b \in Batches}

(***************************************************************************)
(* What requests.post can meet (lines 49-56): no response at all, or a     *)
(* response with a status and a JSON body.                                 *)
(***************************************************************************)
Statuses == {200, 304, 404, 500}
NoResponse == [kind |-> "error", status |-> 0, body |-> EmptyDict]
Outcomes ==
    {NoResponse}
    \cup {[kind |-> "response", status |-> s, body |-> b] :
            s \in Statuses, b \in Payloads}

(***************************************************************************)
(* fetch_campaign_data, lines 48-80.                                       *)
(***************************************************************************)
\* line 63: the entry is kept
Kept(campaign_data) ==
    /\ Len(campaign_data) > 0
    /\ "platforms" \in DOMAIN campaign_data[1]

\* lines 64-67, for a non-empty platforms mapping
StatsOf(platform_data) ==
    LET all_platforms == platform_data[1].value
        locales == Get(all_platforms, "locales", EmptyDict)
        all_locales == Get(locales, "all_locales", EmptyDict)
        variations == Get(all_locales, "variations", EmptyDict)
        all_variations == Get(variations, "all_variations", EmptyDict)
    IN  Get(all_variations, "performance_stats", EmptyDict)

\* lines 69-73; 'Campaign ' + campaign_id is the pair of its two parts
CampaignEntry(campaign_id, stats) ==
    [campaign_id |-> campaign_id,
     name |-> <<"Campaign ", campaign_id>>,
     stats |-> stats]

\* lines 61-74 from entry i on, with `campaigns` built so far: next() on the
\* values of an empty platforms mapping raises StopIteration, which no
\* handler of lines 78-80 catches.
RECURSIVE NormalizeFrom(_, _, _)
NormalizeFrom(items, i, campaigns) ==
    IF i > Len(items) THEN [status |-> "ok", value |-> campaigns]
    ELSE LET campaign_id == items[i].key
             campaign_data == items[i].value
         IN  IF ~Kept(campaign_data) THEN NormalizeFrom(items, i + 1, campaigns)
             ELSE LET platform_data == campaign_data[1].platforms
                  IN  IF Len(platform_data) = 0
                      THEN [status |-> "StopIteration", value |-> << >>]
                      ELSE NormalizeFrom(items, i + 1,
                              Append(campaigns,
                                     CampaignEntry(campaign_id,
                                                   StatsOf(platform_data))))

\* lines 59-76
Normalize(data) ==
    IF "data" \in DOMAIN data THEN NormalizeFrom(data.data, 1, << >>)
    ELSE [status |-> "ok", value |-> << >>]

\* only a missing response counts as a failure
RaisesOnTransportOnly(o) == o.kind = "error"

\* lines 49-55 and 78: requests.post raises a RequestException when there is no
\* response, raise_for_status raises HTTPError for a status in 400..599.
RaisesRequestException(o) ==
    \/ o.kind = "error"
    \/ (o.status >= 400 /\ o.status < 600)

\* lines 48-80: status "ok" with the value returned, or the exception that
\* leaves the function; errors counts the st.error calls.
FetchBody(o) ==
    IF RaisesRequestException(o)
    THEN [status |-> "ok", value |-> << >>, errors |-> 1]
    ELSE LET r == Normalize(o.body)
         IN  [status |-> r.status, value |-> r.value, errors |-> 0]

(***************************************************************************)
(* Floats, as pandas computes with them (lines 108-118).                   *)
(***************************************************************************)
RECURSIVE GCD(_, _)
GCD(a, b) == IF b = 0 THEN a ELSE GCD(b, a % b)

Abs(a) == IF a < 0 THEN 0 - a ELSE a

\* the number n/d, d > 0
Rat(n, d) ==
    LET g == GCD(Abs(n), d)
    IN  [k |-> "num", n |-> n \div g, d |-> d \div g]

Num(i) == Rat(i, 1)
NaN == [k |-> "nan", n |-> 0, d |-> 1]
Inf == [k |-> "inf", n |-> 0, d |-> 1]
NInf == [k |-> "ninf", n |-> 0, d |-> 1]

\* Series / Series, elementwise: a NaN operand gives NaN, 0/0 gives NaN, a
\* non-zero number over 0 gives an infinity of its sign. Operands are numbers
\* or NaN.
Div(x, y) ==
    IF x.k # "num" \/ y.k # "num" THEN NaN
    ELSE IF y.n = 0
         THEN IF x.n = 0 THEN NaN ELSE IF x.n > 0 THEN Inf ELSE NInf
         ELSE IF y.n > 0 THEN Rat(x.n * y.d, x.d * y.n)
              ELSE Rat((0 - x.n) * y.d, x.d * (0 - y.n))

\* .replace([np.inf, -np.inf], 0)
ReplaceInf(x) == IF x.k \in {"inf", "ninf"} THEN Num(0) ELSE x

\* .fillna(0)
FillNa(x) == IF x.k = "nan" THEN Num(0) ELSE x

\* * 100
Times100(x) == IF x.k = "num" THEN Rat(x.n * 100, x.d) ELSE x

\* p/q (p >= 0, q > 0) rounded to the nearest integer, a tie to the even one
RoundHalfEven(p, q) ==
    LET f == p \div q
        r == p % q
    IN  IF 2 * r < q THEN f
        ELSE IF 2 * r > q THEN f + 1
        ELSE IF f % 2 = 0 THEN f ELSE f + 1

\* round(2) of one float: NaN and the infinities stay
Round2(x) ==
    IF x.k # "num" THEN x
    ELSE IF x.n >= 0 THEN Rat(RoundHalfEven(x.n * 100, x.d), 100)
    ELSE Rat(0 - RoundHalfEven((0 - x.n) * 100, x.d), 100)

\* the ratio with the infinities left in
SafeRatioNoReplace(x, y) == Times100(FillNa(Div(x, y)))

\* lines 108-112: one guarded ratio, before the final round
SafeRatio(x, y) == Times100(FillNa(ReplaceInf(Div(x, y))))

\* lines 115-116: one flow ratio, no guard
PlainRatio(x, y) == Times100(Div(x, y))

(***************************************************************************)
(* DataFrames.                                                             *)
(***************************************************************************)
EmptyFrame == [cols |-> {}, rows |-> << >>]

\* columns of dtype object, which round() leaves alone
TextCols == {"campaign_id", "name", "Campaign Name", "created_by", "status"}

\* df.empty
IsEmpty(df) == df.cols = {} \/ Len(df.rows) = 0

\* line 98-106: the columns the rename maps
RenameMap ==
    ("name" :> "Campaign Name") @@ ("stats.sent" :> "Sent")
    @@ ("stats.delivered" :> "Delivered") @@ ("stats.impression" :> "Opens/Views")
    @@ ("stats.click" :> "Clicks") @@ ("stats.conversion" :> "Conversions")
    @@ ("stats.failed" :> "Failed")

Renamed(c) == IF c \in DOMAIN RenameMap THEN RenameMap[c] ELSE c

\* df.rename(columns=RenameMap): a new frame, names that are no column ignored
Rename(df) ==
    LET cols2 == {Renamed(c) : c \in df.cols}
    IN  [cols |-> cols2,
         rows |-> [i \in 1..Len(df.rows) |->
                     [c2 \in cols2 |->
                        df.rows[i][CHOOSE c \in df.cols : Renamed(c) = c2]]]]

\* df[name] = vals, a Series with one value per row
SetCol(df, name, vals) ==
    [cols |-> df.cols \cup {name},
     rows |-> [i \in 1..Len(df.rows) |->
                 [c \in df.cols \cup {name} |->
                    IF c = name THEN vals[i] ELSE df.rows[i][c]]]]

\* (df[a] / df[b]).replace([np.inf, -np.inf], 0).fillna(0) * 100
SafeSeries(df, a, b) ==
    [i \in 1..Len(df.rows) |-> SafeRatio(df.rows[i][a], df.rows[i][b])]

\* (df[a] / df[b]) * 100
PlainSeries(df, a, b) ==
    [i \in 1..Len(df.rows) |-> PlainRatio(df.rows[i][a], df.rows[i][b])]

\* df.round(2): a new frame
RoundFrame(df) ==
    [cols |-> df.cols,
     rows |-> [i \in 1..Len(df.rows) |->
                 [c \in df.cols |->
                    IF c \in TextCols THEN df.rows[i][c] ELSE Round2(df.rows[i][c])]]]

\* the first column of `needed` that df lacks, "" when it has them all
RECURSIVE FirstMissing(_, _, _)
FirstMissing(df, needed, i) ==
    IF i > Len(needed) THEN ""
    ELSE IF needed[i] \notin df.cols THEN needed[i]
    ELSE FirstMissing(df, needed, i + 1)

(***************************************************************************)
(* calculate_metrics, lines 91-118. The result is                          *)
(*   status  "ok", or "KeyError" when a column read does not exist         *)
(*   key     the column of the KeyError                                    *)
(*   ret     the frame returned                                            *)
(*   arg     the caller's frame object after the call                      *)
(***************************************************************************)
\* the columns lines 108-112 read, in the order they are read
CampaignReads == <<"Delivered", "Sent", "Opens/Views", "Clicks", "Conversions">>

\* lines 108-112 on the renamed frame
CampaignColumns(df) ==
    LET d1 == SetCol(df, "Delivery Rate (%)", SafeSeries(df, "Delivered", "Sent"))
        d2 == SetCol(d1, "Open Rate (%)", SafeSeries(d1, "Opens/Views", "Delivered"))
        d3 == SetCol(d2, "CTR (%)", SafeSeries(d2, "Clicks", "Opens/Views"))
        d4 == SetCol(d3, "CTOR (%)", SafeSeries(d3, "Clicks", "Opens/Views"))
    IN  SetCol(d4, "CTC Rate (%)", SafeSeries(d4, "Conversions", "Clicks"))

\* lines 96-112 and 118: the rename makes a new frame, the columns are set on it
CalculateCampaign(df) ==
    LET renamed == Rename(df)
        missing == FirstMissing(renamed, CampaignReads, 1)
    IN  IF missing # ""
        THEN [status |-> "KeyError", key |-> missing, ret |-> EmptyFrame, arg |-> df]
        ELSE [status |-> "ok", key |-> "",
              ret |-> RoundFrame(CampaignColumns(renamed)), arg |-> df]

\* lines 114-116 and 118: the columns are set on the caller's frame
CalculateFlow(df) ==
    LET d1 == SetCol(df, "Completion Rate (%)", PlainSeries(df, "completed", "entered"))
        d2 == SetCol(d1, "Conversion Rate (%)", PlainSeries(d1, "conversions", "entered"))
        miss1 == FirstMissing(df, <<"completed", "entered">>, 1)
        miss2 == FirstMissing(df, <<"conversions">>, 1)
    IN  IF miss1 # ""
        THEN [status |-> "KeyError", key |-> miss1, ret |-> EmptyFrame, arg |-> df]
        ELSE IF miss2 # ""
        THEN [status |-> "KeyError", key |-> miss2, ret |-> EmptyFrame, arg |-> d1]
        ELSE [status |-> "ok", key |-> "", ret |-> RoundFrame(d2), arg |-> d2]

CalculateMetrics(df, mode) ==
    IF IsEmpty(df) THEN [status |-> "ok", key |-> "", ret |-> df, arg |-> df]
    ELSE IF mode = "campaign" THEN CalculateCampaign(df)
    ELSE CalculateFlow(df)

(***************************************************************************)
(* The campaign pipeline, lines 136-141.                                   *)
(***************************************************************************)
\* the keys of the stats of all records: the columns pd.json_normalize makes
StatsKeys(raw_data) == UNION {DOMAIN raw_data[i].stats : i \in 1..Len(raw_data)}

\* lines 137-139: pd.DataFrame(raw_data), then 'stats' replaced by one column
\* per stats key, named by the key, NaN where a record lacks the key
Flatten(raw_data) ==
    IF Len(raw_data) = 0 THEN EmptyFrame
    ELSE LET keys == StatsKeys(raw_data)
             cols == {"campaign_id", "name"} \cup keys
         IN  [cols |-> cols,
              rows |-> [i \in 1..Len(raw_data) |->
                          [c \in cols |->
                             IF c = "campaign_id" THEN raw_data[i].campaign_id
                             ELSE IF c = "name" THEN raw_data[i].name
                             ELSE IF c \in DOMAIN raw_data[i].stats
                                  THEN Num(raw_data[i].stats[c])
                                  ELSE NaN]]]

\* lines 137-141
Pipeline(raw_data) == CalculateMetrics(Flatten(raw_data), "campaign")

(***************************************************************************)
(* The DataFrames calculate_metrics is called with on its own.             *)
(***************************************************************************)
Values == {Num(i) : i \in 0..MaxCount} \cup {NaN}

\* the stats columns as the rename of lines 98-106 expects them, and as
\* line 139 names them
PrefixedCols == <<"stats.sent", "stats.delivered", "stats.impression",
                  "stats.click", "stats.conversion">>
PlainCols == <<"sent", "delivered", "impression", "click", "conversion">>

CampaignRow(names, vals, id) ==
    [c \in {"campaign_id", "name"} \cup {names[j] : j \in 1..Len(names)} |->
        IF c = "campaign_id" THEN id
        ELSE IF c = "name" THEN <<"Campaign ", id>>
        ELSE vals[CHOOSE j \in 1..Len(names) : names[j] = c]]

\* the rows that follow the first one
MoreCampaignValues ==
    {<<Num(100), Num(80), Num(40), Num(10), Num(2)>>,
     <<Num(0), NaN, Num(0), NaN, Num(0)>>}

CampaignFramesOver(names) ==
    UNION {{[cols |-> {"campaign_id", "name"} \cup {names[j] : j \in 1..Len(names)},
             rows |-> [i \in 1..n |->
                         CampaignRow(names, IF i = 1 THEN v ELSE more[i],
                                     CampaignIds[i])]] :
              v \in [1..Len(names) -> Values],
              more \in [2..n -> MoreCampaignValues]} :
           n \in 1..Min(MaxRows, Len(CampaignIds))}

CampaignFrames ==
    {EmptyFrame} \cup CampaignFramesOver(PrefixedCols) \cup CampaignFramesOver(PlainCols)

\* get_mock_flow_data, lines 84-88
MockFlowRows ==
    << [name |-> "New User Onboarding Flow", entered |-> Num(1500),
        completed |-> Num(1100), dropped_off |-> Num(400), conversions |-> Num(850),
        created_by |-> "marketing@example.com", status |-> "Active"],
       [name |-> "Cart Abandonment Recovery", entered |-> Num(800),
        completed |-> Num(500), dropped_off |-> Num(300), conversions |-> Num(450),
        created_by |-> "retention@example.com", status |-> "Active"],
       [name |-> "Subscription Renewal Reminder", entered |-> Num(2500),
        completed |-> Num(2200), dropped_off |-> Num(300), conversions |-> Num(2000),
        created_by |-> "marketing@example.com", status |-> "Finished"] >>

FlowCols == {"name", "entered", "completed", "dropped_off", "conversions",
             "created_by", "status"}

\* line 89
MockFlowData == [cols |-> FlowCols, rows |-> MockFlowRows]

FlowFrames ==
    {EmptyFrame, MockFlowData}
    \cup UNION {{[cols |-> FlowCols,
                  rows |-> [i \in 1..n |->
                              IF i = 1
                              THEN [MockFlowRows[1] EXCEPT !.entered = Num(e),
                                                           !.completed = Num(c),
                                                           !.conversions = Num(v)]
                              ELSE MockFlowRows[more[i]]]] :
                   e \in 0..MaxCount, c \in 0..MaxCount, v \in 0..MaxCount,
                   more \in [2..n -> 1..Len(MockFlowRows)]} :
                n \in 1..MaxRows}

(***************************************************************************)
(* State before anything has run.                                          *)
(***************************************************************************)
NoFetch == [status |-> "none", value |-> << >>, errors |-> 0]
NoDerive == [status |-> "none", key |-> "", ret |-> EmptyFrame, arg |-> EmptyFrame]

RunIdle ==
    /\ phase = "off"
    /\ outcome = NoResponse
    /\ fetched = NoFetch
    /\ derived = NoDerive

CalcIdle ==
    /\ calcPhase = "off"
    /\ calcDf = EmptyFrame
    /\ calcMode = "campaign"
    /\ calcIn = EmptyFrame
    /\ calcOut = NoDerive

(***************************************************************************)
(* One script run in campaign mode on a cache miss: the fetch (line 136),  *)
(* then lines 137-141. An exception ends the run where it is raised.       *)
(***************************************************************************)
RunInit ==
    /\ phase = "start"
    /\ outcome \in Outcomes
    /\ fetched = NoFetch
    /\ derived = NoDerive

RunFetch ==
    /\ phase = "start"
    /\ fetched' = FetchBody(outcome)
    /\ phase' = "fetched"
    /\ UNCHANGED <<outcome, derived, calcVars, cacheVars>>

RunDerive ==
    /\ phase = "fetched"
    /\ fetched.status = "ok"
    /\ derived' = Pipeline(fetched.value)
    /\ phase' = "derived"
    /\ UNCHANGED <<outcome, fetched, calcVars, cacheVars>>

(***************************************************************************)
(* calculate_metrics called once with a frame the caller keeps.            *)
(***************************************************************************)
CalcInit ==
    /\ calcPhase = "input"
    /\ calcMode \in {"campaign", "flow"}
    /\ calcDf \in (IF calcMode = "campaign" THEN CampaignFrames ELSE FlowFrames)
    /\ calcIn = calcDf
    /\ calcOut = NoDerive

CalcCall ==
    /\ calcPhase = "input"
    /\ calcOut' = CalculateMetrics(calcDf, calcMode)
    /\ calcDf' = calcOut'.arg
    /\ calcPhase' = "called"
    /\ UNCHANGED <<calcMode, calcIn, runVars, cacheVars>>

(***************************************************************************)
(* fetch_campaign_data behind @st.cache_data(ttl=600), lines 18-19, called *)
(* by the script runs of several sessions (line 136). The wrapper looks    *)
(* the value key up; on a miss it takes the key's compute lock, looks the  *)
(* key up again, and only then calls the function and stores what it       *)
(* returns, with the elements it displayed, for TTL seconds. An exception  *)
(* of the function leaves the wrapper and nothing is stored.               *)
(***************************************************************************)
Sessions == {"s1", "s2"}

\* (start_date, end_date) as day numbers
DateRanges == {<<1, 7>>, <<1, 8>>}

\* the key of the cached value: the hash of both arguments
ValueKey(range) == <<range[1], range[2]>>

ValueKeys == {ValueKey(r) : r \in DateRanges}

NoCall == 0 - 1

NoEntry == [live |-> FALSE, value |-> << >>, errors |-> 0, expires |-> 0]

\* the entry is in the cache and its TTL has not run out
Live(key) == cache[key].live /\ now < cache[key].expires

\* only results without an error shown are stored
CacheableWithoutError(res) == res.errors = 0

\* what the wrapper stores: every value the function returns
Cacheable(res) == TRUE

\* the responses the provider gives in this part of the model: each way a
\* call of fetch_campaign_data can end
OneEntry(stats) ==
    [data |-> << [key |-> CampaignIds[1],
                  value |-> OnePlatform(Nest(Len(Path), stats))] >>]

CacheOutcomes ==
    {NoResponse,
     [kind |-> "response", status |-> 500, body |-> EmptyDict],
     [kind |-> "response", status |-> 200, body |-> EmptyDict],
     [kind |-> "response", status |-> 200, body |-> OneEntry(StatsExample)],
     [kind |-> "response", status |-> 200,
      body |-> [data |-> << [key |-> CampaignIds[1], value |-> EmptyPlatforms] >>]]}

\* the call was made in the TTL window that the first call with its range opened
InWindowOf(f, t) == f # NoCall /\ t < f + TTL

CacheIdle ==
    /\ now = 0
    /\ cache = [k \in ValueKeys |-> NoEntry]
    /\ lock = [k \in ValueKeys |-> "free"]
    /\ pc = [s \in Sessions |-> "idle"]
    /\ ckey = [s \in Sessions |-> CHOOSE r \in DateRanges : TRUE]
    /\ cwin = [s \in Sessions |-> FALSE]
    /\ cret = [s \in Sessions |-> << >>]
    /\ chit = [s \in Sessions |-> FALSE]
    /\ cfail = [s \in Sessions |-> FALSE]
    /\ cerrs = [s \in Sessions |-> 0]
    /\ ncalls = 0
    /\ first = [r \in DateRanges |-> NoCall]
    /\ winPosts = [r \in DateRanges |-> 0]
    /\ winRets = [r \in DateRanges |-> {}]
    /\ writes = [r \in DateRanges |-> {}]

\* a session blocked on a compute lock that is free: it takes the lock at
\* once, long before the timer moves by ClockStep
LockReady(s) == pc[s] = "waiting" /\ lock[ValueKey(ckey[s])] = "free"

\* the cache timer advances
Tick ==
    /\ now < MaxTime * ClockStep
    /\ \A s \in Sessions : ~LockReady(s)
    /\ now' = now + ClockStep
    /\ UNCHANGED <<cache, lock, pc, ckey, cwin, cret, chit, cfail, cerrs, ncalls,
                   first, winPosts, winRets, writes>>
    /\ UNCHANGED <<runVars, calcVars>>

\* a script run reaches line 136
Begins(s, range) ==
    /\ pc[s] \in {"idle", "returned", "raised"}
    /\ ncalls < MaxCalls
    /\ ncalls' = ncalls + 1
    /\ ckey' = [ckey EXCEPT ![s] = range]
    /\ first' = [first EXCEPT ![range] = IF @ = NoCall THEN now ELSE @]
    /\ cwin' = [cwin EXCEPT ![s] = InWindowOf(first'[range], now)]
    /\ cfail' = [cfail EXCEPT ![s] = Live(ValueKey(range))
                                     /\ cache[ValueKey(range)].errors > 0]

\* the wrapper returns the stored value and replays its elements
Hit(s, range) ==
    /\ pc' = [pc EXCEPT ![s] = "returned"]
    /\ cret' = [cret EXCEPT ![s] = cache[ValueKey(range)].value]
    /\ cerrs' = [cerrs EXCEPT ![s] = cache[ValueKey(range)].errors]
    /\ chit' = [chit EXCEPT ![s] = TRUE]

\* the first lookup finds the value
CallHit(s, range) ==
    /\ Begins(s, range)
    /\ Live(ValueKey(range))
    /\ Hit(s, range)
    /\ winRets' = [winRets EXCEPT ![range] =
                     IF cwin'[s] THEN @ \cup {cret'[s]} ELSE @]
    /\ UNCHANGED <<now, cache, lock, winPosts, writes>>
    /\ UNCHANGED <<runVars, calcVars>>

\* the first lookup misses: the session goes for the compute lock
CallMiss(s, range) ==
    /\ Begins(s, range)
    /\ ~Live(ValueKey(range))
    /\ pc' = [pc EXCEPT ![s] = "waiting"]
    /\ UNCHANGED <<now, cache, lock, cret, chit, cerrs, winPosts, winRets, writes>>
    /\ UNCHANGED <<runVars, calcVars>>

\* with the lock, the second lookup finds the value another session stored
AcquireHit(s) ==
    /\ LockReady(s)
    /\ Live(ValueKey(ckey[s]))
    /\ Hit(s, ckey[s])
    /\ winRets' = [winRets EXCEPT ![ckey[s]] =
                     IF cwin[s] THEN @ \cup {cret'[s]} ELSE @]
    /\ UNCHANGED <<now, cache, lock, ckey, cwin, cfail, ncalls, first, winPosts,
                   writes>>
    /\ UNCHANGED <<runVars, calcVars>>

\* with the lock, the second lookup misses too: the function runs and sends
\* its POST (line 49)
AcquireMiss(s) ==
    /\ LockReady(s)
    /\ ~Live(ValueKey(ckey[s]))
    /\ lock' = [lock EXCEPT ![ValueKey(ckey[s])] = s]
    /\ pc' = [pc EXCEPT ![s] = "inflight"]
    /\ winPosts' = [winPosts EXCEPT ![ckey[s]] = IF cwin[s] THEN @ + 1 ELSE @]
    /\ UNCHANGED <<now, cache, ckey, cwin, cret, chit, cfail, cerrs, ncalls, first,
                   winRets, writes>>
    /\ UNCHANGED <<runVars, calcVars>>

\* the request ends and the function returns: the wrapper stores the value
Returns(s, o) ==
    /\ pc[s] = "inflight"
    /\ LET res == FetchBody(o)
           key == ValueKey(ckey[s])
       IN  /\ res.status = "ok"
           /\ cache' = IF Cacheable(res)
                       THEN [cache EXCEPT ![key] =
                               [live |-> TRUE, value |-> res.value,
                                errors |-> res.errors, expires |-> now + TTL]]
                       ELSE cache
           /\ writes' = IF Cacheable(res)
                        THEN [writes EXCEPT ![ckey[s]] = @ \cup {res.value}]
                        ELSE writes
           /\ lock' = [lock EXCEPT ![key] = "free"]
           /\ pc' = [pc EXCEPT ![s] = "returned"]
           /\ cret' = [cret EXCEPT ![s] = res.value]
           /\ cerrs' = [cerrs EXCEPT ![s] = res.errors]
           /\ chit' = [chit EXCEPT ![s] = FALSE]
           /\ winRets' = [winRets EXCEPT ![ckey[s]] =
                            IF cwin[s] THEN @ \cup {res.value} ELSE @]
    /\ UNCHANGED <<now, ckey, cwin, cfail, ncalls, first, winPosts>>
    /\ UNCHANGED <<runVars, calcVars>>

\* the request ends and the function raises: the exception leaves the
\* wrapper, which stores nothing
Raises(s, o) ==
    /\ pc[s] = "inflight"
    /\ FetchBody(o).status # "ok"
    /\ lock' = [lock EXCEPT ![ValueKey(ckey[s])] = "free"]
    /\ pc' = [pc EXCEPT ![s] = "raised"]
    /\ UNCHANGED <<now, cache, ckey, cwin, cret, chit, cfail, cerrs, ncalls, first,
                   winPosts, winRets, writes>>
    /\ UNCHANGED <<runVars, calcVars>>

(***************************************************************************)
(* The specifications.                                                     *)
(***************************************************************************)
\* the sessions calling through the cache
Init == RunIdle /\ CalcIdle /\ CacheIdle

Next ==
    \/ Tick
    \/ \E s \in Sessions, r \in DateRanges : CallHit(s, r)
    \/ \E s \in Sessions, r \in DateRanges : CallMiss(s, r)
    \/ \E s \in Sessions : AcquireHit(s)
    \/ \E s \in Sessions : AcquireMiss(s)
    \/ \E s \in Sessions, o \in CacheOutcomes : Returns(s, o)
    \/ \E s \in Sessions, o \in CacheOutcomes : Raises(s, o)

Spec == Init /\ [][Next]_vars

\* one script run on a cache miss, for every outcome of the request
InitFetch == RunInit /\ CalcIdle /\ CacheIdle

NextFetch == RunFetch \/ RunDerive

SpecFetch == InitFetch /\ [][NextFetch]_vars

\* calculate_metrics on its own, for every frame
InitCalc == RunIdle /\ CalcInit /\ CacheIdle

NextCalc == CalcCall

SpecCalc == InitCalc /\ [][NextCalc]_vars

(***************************************************************************)
(* Properties of the fetch and of the pipeline (SpecFetch).                *)
(***************************************************************************)
\* the request got a response whose payload the function reads
PayloadRead == phase # "start" /\ ~RaisesRequestException(outcome)

\* the entries of the payload, in provider order
Entries == IF "data" \in DOMAIN outcome.body THEN outcome.body.data ELSE << >>

\* entry i has a first element with a non-empty platforms structure
HasPlatforms(i) ==
    /\ Len(Entries[i].value) > 0
    /\ "platforms" \in DOMAIN Entries[i].value[1]
    /\ Len(Entries[i].value[1].platforms) > 0

\* entry i is an empty list, or its first element lacks the platforms key
Malformed(i) ==
    \/ Len(Entries[i].value) = 0
    \/ "platforms" \notin DOMAIN Entries[i].value[1]

\* the subsequence of the ids of the entries that have platforms
RECURSIVE IdsWithPlatforms(_)
IdsWithPlatforms(i) ==
    IF i > Len(Entries) THEN << >>
    ELSE IF HasPlatforms(i) THEN <<Entries[i].key>> \o IdsWithPlatforms(i + 1)
    ELSE IdsWithPlatforms(i + 1)

FetchedIds == [j \in 1..Len(fetched.value) |-> fetched.value[j].campaign_id]

\* C2: for every payload the provider returns, fetch_campaign_data raises
\* nothing and returns as many records as there are entries whose first
\* element has a non-empty platforms structure.
C2_LengthIsEntriesWithPlatforms ==
    PayloadRead =>
        /\ fetched.status = "ok"
        /\ Len(fetched.value) = Cardinality({i \in 1..Len(Entries) : HasPlatforms(i)})

\* C3 as stated: when the request fails in transport or the response has a
\* non-2xx status, exactly one error is shown, the empty list is returned and
\* no exception leaves the function.
C3_Non2xxIsAnError ==
    (phase # "start" /\ (outcome.kind = "error" \/ outcome.status \notin 200..299)) =>
        fetched = [status |-> "ok", value |-> << >>, errors |-> 1]

\* C3 as amended: when the request fails in transport or the response has a
\* 4xx or 5xx status, exactly one error is shown, the empty list is returned
\* (whatever the body holds) and no exception leaves the function.
C3_ErrorStatusIsAnError ==
    (phase # "start" /\ (outcome.kind = "error" \/ outcome.status \in 400..599)) =>
        fetched = [status |-> "ok", value |-> << >>, errors |-> 1]

\* a 404 whose body holds a well-formed campaign was degraded to the empty list
C3_Witness ==
    /\ phase = "fetched"
    /\ outcome.status = 404
    /\ Len(Entries) > 0
    /\ \A i \in 1..Len(Entries) : HasPlatforms(i)
    /\ fetched = [status |-> "ok", value |-> << >>, errors |-> 1]

\* the cell of the only row of the derived frame
Cell(c) == derived.ret.rows[1][c]

\* C5: the payload with one campaign with sent=100, delivered=80,
\* impression=40, click=10, conversion=2 goes through the fetch, the
\* flattening and calculate_metrics and yields one record with these five
\* values under their canonical names and the rates 80, 50, 25, 25 and 20.
C5_RoundTripExample ==
    (phase = "derived" /\ ~RaisesRequestException(outcome)
     /\ outcome.body = OneEntry(StatsExample)) =>
        /\ derived.status = "ok"
        /\ Len(derived.ret.rows) = 1
        /\ Cell("Sent") = Num(100)
        /\ Cell("Delivered") = Num(80)
        /\ Cell("Opens/Views") = Num(40)
        /\ Cell("Clicks") = Num(10)
        /\ Cell("Conversions") = Num(2)
        /\ Cell("Delivery Rate (%)") = Num(80)
        /\ Cell("Open Rate (%)") = Num(50)
        /\ Cell("CTR (%)") = Num(25)
        /\ Cell("CTOR (%)") = Num(25)
        /\ Cell("CTC Rate (%)") = Num(20)

\* C6: entries that are an empty list or lack the platforms key give no
\* record, every other entry of the batch gives its record, in provider
\* order, and the pass is never aborted.
C6_MalformedEntriesSkipped ==
    PayloadRead =>
        /\ fetched.status = "ok"
        /\ \A i \in 1..Len(Entries) :
              Malformed(i) =>
                 \A j \in 1..Len(fetched.value) :
                    fetched.value[j].campaign_id # Entries[i].key
        /\ FetchedIds = IdsWithPlatforms(1)

MetricCols == {"Delivery Rate (%)", "Open Rate (%)", "CTR (%)", "CTOR (%)",
               "CTC Rate (%)"}

\* C7: for every list of records the normalisation produces, the metric
\* step raises nothing and its result has the five derived metrics.
C7_DerivationNeverErrors ==
    phase = "derived" =>
        /\ derived.status = "ok"
        /\ Len(fetched.value) > 0 => MetricCols \subseteq derived.ret.cols

\* the first platform of entry i lacks a segment of the path
SegmentMissing(i) ==
    /\ HasPlatforms(i)
    /\ \E d \in 0..(Len(Path) - 1) :
          Entries[i].value[1].platforms[1].value = Nest(d, EmptyDict)

\* C9: an entry that passes the skip test and whose first platform lacks a
\* segment of the path still gives a record, with empty stats and the name
\* "Campaign " + id, the other entries are processed, and every record holds
\* the stats of the first platform only.
C9_MissingSegmentGivesEmptyStats ==
    PayloadRead =>
        /\ \A i \in 1..Len(Entries) :
              SegmentMissing(i) =>
                 \E j \in 1..Len(fetched.value) :
                    fetched.value[j] =
                       [campaign_id |-> Entries[i].key,
                        name |-> <<"Campaign ", Entries[i].key>>,
                        stats |-> EmptyDict]
        /\ \A i \in 1..Len(Entries) :
              HasPlatforms(i) =>
                 \E j \in 1..Len(fetched.value) :
                    /\ fetched.value[j].campaign_id = Entries[i].key
                    /\ fetched.value[j].stats =
                          StatsOf(<<Entries[i].value[1].platforms[1]>>)

(***************************************************************************)
(* Properties of calculate_metrics (SpecCalc).                             *)
(***************************************************************************)
\* each derived metric with the column of its denominator
Denominator ==
    ("Delivery Rate (%)" :> "Sent") @@ ("Open Rate (%)" :> "Delivered")
    @@ ("CTR (%)" :> "Opens/Views") @@ ("CTOR (%)" :> "Opens/Views")
    @@ ("CTC Rate (%)" :> "Clicks")

CampaignCalled ==
    /\ calcPhase = "called"
    /\ calcMode = "campaign"
    /\ calcOut.status = "ok"
    /\ ~IsEmpty(calcIn)

\* C4: in campaign mode every derived metric of every record is a number,
\* never NaN or infinite, is at least 0, and is exactly 0 when the field of
\* its denominator is 0.
C4_MetricsFiniteAndZeroSafe ==
    CampaignCalled =>
        \A i \in 1..Len(calcOut.ret.rows) : \A m \in MetricCols :
            LET row == calcOut.ret.rows[i]
            IN  /\ m \in DOMAIN row
                /\ row[m].k = "num"
                /\ row[m].n >= 0
                /\ row[Denominator[m]] = Num(0) => row[m] = Num(0)

\* a record with Sent = 0 and Delivered > 0 got the Delivery Rate 0, next to
\* a record with a non-zero rate
C4_Witness ==
    /\ CampaignCalled
    /\ \E i \in 1..Len(calcOut.ret.rows) :
          /\ calcOut.ret.rows[i]["Sent"] = Num(0)
          /\ calcOut.ret.rows[i]["Delivered"].k = "num"
          /\ calcOut.ret.rows[i]["Delivered"].n > 0
          /\ calcOut.ret.rows[i]["Delivery Rate (%)"] = Num(0)
    /\ \E i \in 1..Len(calcOut.ret.rows) :
          calcOut.ret.rows[i]["Delivery Rate (%)"] = Num(80)

\* C8: in both modes a call leaves the frame passed in as it was, and the
\* records of the result are those of the input, in its order.
C8_InputLeftUnchanged ==
    calcPhase = "called" =>
        /\ calcDf = calcIn
        /\ calcOut.status = "ok" =>
              /\ Len(calcOut.ret.rows) = Len(calcIn.rows)
              /\ \A i \in 1..Len(calcIn.rows) :
                    \A c \in calcIn.cols \cap calcOut.ret.cols :
                       calcOut.ret.rows[i][c] = calcIn.rows[i][c]

(***************************************************************************)
(* Properties of the cached fetch (Spec).                                  *)
(***************************************************************************)
\* C1: the calls with one date range made within the TTL window of the
\* first of them send at most one POST between them and return the same
\* sequence, in every interleaving.
C1_SingleFlight ==
    \A r \in DateRanges :
        /\ winPosts[r] <= 1
        /\ Cardinality(winRets[r]) <= 1

\* C10: the empty list of a failed fetch is stored like any result; while
\* its entry is live every call with that date range returns the empty list
\* from the cache, a POST is sent only when the range has no live entry, and
\* a call is only ever served a value stored for its own date range.
C10_FailureIsCached ==
    \A s \in Sessions :
        /\ (pc[s] = "returned" /\ ~chit[s] /\ cerrs[s] > 0) =>
              cache[ValueKey(ckey[s])].live
        /\ (pc[s] = "returned" /\ cfail[s]) => (chit[s] /\ cret[s] = << >>)
        /\ pc[s] = "inflight" => ~Live(ValueKey(ckey[s]))
        /\ (pc[s] = "returned" /\ chit[s]) => cret[s] \in writes[ckey[s]]

\* one session was served the empty list of a failed fetch from the cache
\* while another got campaigns for the other date range
C10_Witness ==
    \E s, t \in Sessions :
        /\ pc[s] = "returned" /\ cfail[s] /\ chit[s]
        /\ cret[s] = << >> /\ cerrs[s] > 0
        /\ pc[t] = "returned" /\ ckey[t] # ckey[s] /\ ~chit[t]
        /\ Len(cret[t]) > 0

====
